---- MODULE Spec2Model ----
(***************************************************************************)
(* Model of the SGP41 driver (sgp41.c / sgp41.h): command framing over an  *)
(* I2C bus, the busy-wait delay, the CRC-8 generator/checker and the       *)
(* initialisation sequence.                                                *)
(***************************************************************************)
EXTENDS Integers, Sequences, FiniteSets, TLC

(***************************************************************************)
(* Program constants (sgp41.h, sgp41.c)                                    *)
(***************************************************************************)
CRC8_POLYNOMIAL == 49

CRC8_INIT == 255

SGP41_I2C_BUFFER_LEN_MAX == 8

SPG41_EXECUTE_CONDITIONING_CMD == 9746

SPG41_MESASURE_RAW_SIGNALS_CMD == 9753

SPG41_EXECUTE_SELF_TEST_CMD == 10254

SPG41_TURN_HEATER_FF_CMD == 13845

SPG41_GET_SERIAL_NUMBER_CMD == 13954

\* 0xD400, the self-test word sgp41_init compares against
SELF_TEST_OK == 54272

ESP_OK == "ESP_OK"

ESP_FAIL == "ESP_FAIL"

(***************************************************************************)
(* Machine arithmetic on unsigned values                                   *)
(***************************************************************************)
Byte == 0..255

\* a ^ b on single bits, then on 4-bit digits (tabulated once), then on
\* non-negative integers digit by digit
RECURSIVE BitXorBits(_, _)
BitXorBits(a, b) ==
    IF a = 0 THEN b
    ELSE IF b = 0 THEN a
    ELSE ((a + b) % 2) + 2 * BitXorBits(a \div 2, b \div 2)

XorDigit == [a \in 0..15 |-> [b \in 0..15 |-> BitXorBits(a, b)]]

RECURSIVE BitXor(_, _)
BitXor(a, b) ==
    IF a < 16 /\ b < 16 THEN XorDigit[a][b]
    ELSE XorDigit[a % 16][b % 16] + 16 * BitXor(a \div 16, b \div 16)

\* (uint8_t) x
U8(x) == x % 256

\* (uint8_t)((w >> 8) & 0xFF) and (uint8_t)(w & 0xFF)
HiByte(w) == (w \div 256) % 256

LoByte(w) == w % 256

\* (uint16_t)((b0 << 8) | b1) for two bytes
Word(b0, b1) == (b0 * 256 + b1) % 65536

(***************************************************************************)
(* generate_crc / check_crc                                                *)
(***************************************************************************)
\* the inner loop of generate_crc: crc_bit = n .. 1
RECURSIVE crc_bits(_, _)
crc_bits(crc, n) ==
    IF n = 0 THEN crc
    ELSE IF (crc \div 128) % 2 = 1
         THEN crc_bits(U8(BitXor(crc * 2, CRC8_POLYNOMIAL)), n - 1)
         ELSE crc_bits(U8(crc * 2), n - 1)

\* the outer loop of generate_crc from byte index k (1-based) with register crc
RECURSIVE crc_bytes(_, _, _, _)
crc_bytes(data, count, k, crc) ==
    IF k > count THEN crc
    ELSE crc_bytes(data, count, k + 1, crc_bits(BitXor(crc, data[k]), 8))

\* mutant: the register starts at 0 instead of CRC8_INIT
generate_crc_zero_init(data, count) == crc_bytes(data, count, 1, 0)

\* mutant: the loop stops one byte early
generate_crc_short(data, count) ==
    crc_bytes(data, IF count > 0 THEN count - 1 ELSE 0, 1, CRC8_INIT)

generate_crc(data, count) == crc_bytes(data, count, 1, CRC8_INIT)

check_crc(data, count, checksum) ==
    IF generate_crc(data, count) # checksum THEN FALSE ELSE TRUE

(***************************************************************************)
(* Model bounds and input sets                                             *)
(***************************************************************************)
\* width of the modelled microsecond clock (uint64_t in the source)
ClockBits == 19

ClockMod == 2 ^ ClockBits

\* clock readings at which an operation may be entered
StartTimes == {0, ClockMod - 25 * 1000, ClockMod - 1000, ClockMod - 500}

\* microseconds that may pass between two consecutive readings of the clock
ClockSteps == {0, 1000, 7000}

\* real time is followed for at most this long after delay_us is entered
MaxElapsed == ClockMod + 400 * 1000

\* humidity_ticks / temperature_ticks passed by the caller
HumidityTicks == {32768, 48879}

TemperatureTicks == {26214}

\* what an automatic array element holds before it is stored to
IndeterminatePairs == {<<0, 0>>}

IndeterminateWords == {0, SELF_TEST_OK}

\* response triplets the device may put on the bus (valid and corrupted)
RxData == {<<190, 239>>, <<212, 0>>}

RxCrc == {146, 198}

Triplets == {<<d[1], d[2], c>> : d \in RxData, c \in RxCrc}

RECURSIVE Responses(_)
Responses(n) ==
    IF n = 0 THEN {<<>>}
    ELSE {t \o r : t \in Triplets, r \in Responses(n - 3)}

\* an output location that the current call has not stored to
Unwritten == -1

NoOutputs ==
    [sraw_voc |-> Unwritten, sraw_nox |-> Unwritten, test_result |-> Unwritten,
     serial_number |-> <<Unwritten, Unwritten, Unwritten>>]

(***************************************************************************)
(* State                                                                   *)
(***************************************************************************)
VARIABLES
    i2c_dev,    \* me->i2c_dev: "null" or "dev"
    pc,         \* position of the running driver operation
    op,         \* the driver operation entered last
    args,       \* <<humidity ticks, temperature ticks>> of that operation
    ret,        \* its return value, "none" while it runs
    out,        \* the caller's output locations
    bus,        \* bus transactions issued by that operation, in order
    data_rx,    \* its receive buffer
    now,        \* esp_timer_get_time(), modulo ClockMod
    period,     \* period_us of the running delay_us
    m,          \* delay_us: start reading
    e,          \* delay_us: end reading
    elapsed,    \* real microseconds since delay_us read m
    ipc,        \* position of sgp41_init
    iret,       \* return value of sgp41_init
    icalls,     \* driver operations sgp41_init has entered, in order
    ibus,       \* bus transactions issued during sgp41_init
    ilog,       \* what sgp41_init inspected and logged
    crc_data,   \* CRC harness: input bytes
    crc_out,    \* CRC harness: generate_crc(crc_data)
    crc_flip,   \* CRC harness: flipped bit of the triplet, 0 = none
    crc_trip,   \* CRC harness: the triplet after the flip
    crc_acc     \* CRC harness: check_crc on crc_trip, "none" before the call

drv_vars == <<i2c_dev, pc, op, args, ret, out, bus, data_rx, now, period, m, e,
              elapsed, ipc, iret, icalls, ibus, ilog>>

crc_vars == <<crc_data, crc_out, crc_flip, crc_trip, crc_acc>>

vars == <<drv_vars, crc_vars>>

(***************************************************************************)
(* Command table: opcode, response length and delay of each operation, as  *)
(* the five exported functions pass them to i2c_write, i2c_read, delay_us  *)
(***************************************************************************)
Ops == {"conditioning", "measure_raw", "self_test", "heater_off", "serial_number"}

Opcode(o) ==
    CASE o = "conditioning"  -> SPG41_EXECUTE_CONDITIONING_CMD
      [] o = "measure_raw"   -> SPG41_MESASURE_RAW_SIGNALS_CMD
      [] o = "self_test"     -> SPG41_EXECUTE_SELF_TEST_CMD
      [] o = "heater_off"    -> SPG41_TURN_HEATER_FF_CMD
      [] o = "serial_number" -> SPG41_GET_SERIAL_NUMBER_CMD

RxLen(o) ==
    CASE o = "conditioning"  -> 3
      [] o = "measure_raw"   -> 6
      [] o = "self_test"     -> 3
      [] o = "heater_off"    -> 0
      [] o = "serial_number" -> 9

DelayUs(o) ==
    CASE o = "conditioning"  -> 50 * 1000
      [] o = "measure_raw"   -> 50 * 1000
      [] o = "self_test"     -> 320 * 1000
      [] o = "heater_off"    -> 1 * 1000
      [] o = "serial_number" -> 1 * 1000

(***************************************************************************)
(* i2c_write: the transmit buffer                                          *)
(***************************************************************************)
\* buffer[0 .. addr_len + data_len - 1] as handed to i2c_master_transmit
i2c_write_buffer(reg_addr, reg_data, data_len) ==
    <<(reg_addr \div 256) % 256, reg_addr % 256>>
        \o [i \in 1..data_len |-> reg_data[i]]

(***************************************************************************)
(* data_tx of sgp41_execute_conditioning / sgp41_measure_raw_signals.      *)
(* The initialiser calls generate_crc(&data_tx[0], 2) and                  *)
(* generate_crc(&data_tx[3], 2) while data_tx is being initialised; the    *)
(* initialiser expressions are indeterminately sequenced, so seen0 and     *)
(* seen3 are what the two calls find in data_tx[0..1] and data_tx[3..4].   *)
(***************************************************************************)
data_tx(h, t, seen0, seen3) ==
    <<HiByte(h), LoByte(h), generate_crc(seen0, 2),
      HiByte(t), LoByte(t), generate_crc(seen3, 2)>>

\* what generate_crc may find in a pair of elements meant to hold w
SeenPairs(w) == {<<HiByte(w), LoByte(w)>>} \cup IndeterminatePairs

(***************************************************************************)
(* The clock                                                               *)
(***************************************************************************)
\* one call of esp_timer_get_time(), d microseconds after the previous one
ClockRead(d) ==
    /\ elapsed + d <= MaxElapsed
    /\ now' = (now + d) % ClockMod
    /\ elapsed' = elapsed + d

\* the locals of delay_us and its last reading are dead once the operation
\* has returned: the next operation starts from a reading of its own
ClockDead ==
    /\ now' = 0
    /\ period' = 0
    /\ m' = 0
    /\ e' = 0
    /\ elapsed' = 0

(***************************************************************************)
(* Entry of a driver operation up to the return of i2c_write               *)
(***************************************************************************)
CanEnter(o) ==
    /\ pc = "idle"
    /\ i2c_dev = "dev"
    /\ \/ ipc \in {"none", "done"}
       \/ ipc = "call_self_test" /\ o = "self_test"
       \/ ipc = "call_serial_number" /\ o = "serial_number"

\* bookkeeping of sgp41_init when an operation is entered
EnterInit(o) ==
    IF ipc \in {"none", "done"}
    THEN /\ ipc' = "none"
         /\ iret' = "none"
         /\ icalls' = <<>>
         /\ ibus' = 0
         /\ ilog' = <<>>
    ELSE /\ ipc' = IF o = "self_test" THEN "in_self_test" ELSE "in_serial_number"
         /\ icalls' = Append(icalls, o)
         /\ ibus' = ibus + 1
         /\ UNCHANGED <<iret, ilog>>

\* mutant: a failed write does not return, the operation goes on
command_write_no_abort(o, h, t, reg_data) ==
    /\ CanEnter(o)
    /\ EnterInit(o)
    /\ op' = o
    /\ args' = <<h, t>>
    /\ out' = NoOutputs
    /\ data_rx' = <<>>
    /\ elapsed' = 0
    /\ m' = 0
    /\ e' = 0
    /\ \E ok \in BOOLEAN :
         /\ bus' = <<[kind |-> "write", ok |-> ok, len |-> 2 + Len(reg_data),
                      bytes |-> i2c_write_buffer(Opcode(o), reg_data, Len(reg_data))]>>
         /\ ret' = "none"
         /\ pc' = "delay"
         /\ period' = DelayUs(o)
         /\ now' \in StartTimes
    /\ UNCHANGED <<i2c_dev, crc_vars>>

\* if (i2c_write(cmd, data, len, me->i2c_dev) < 0) return ESP_FAIL; delay_us(...)
command_write(o, h, t, reg_data) ==
    /\ CanEnter(o)
    /\ EnterInit(o)
    /\ op' = o
    /\ args' = <<h, t>>
    /\ out' = NoOutputs
    /\ data_rx' = <<>>
    /\ elapsed' = 0
    /\ m' = 0
    /\ e' = 0
    /\ \E ok \in BOOLEAN :
         /\ bus' = <<[kind |-> "write", ok |-> ok, len |-> 2 + Len(reg_data),
                      bytes |-> i2c_write_buffer(Opcode(o), reg_data, Len(reg_data))]>>
         /\ IF ok
            THEN /\ ret' = "none"
                 /\ pc' = "delay"
                 /\ period' = DelayUs(o)
                 /\ now' \in StartTimes
            ELSE /\ ret' = ESP_FAIL
                 /\ pc' = "idle"
                 /\ period' = 0
                 /\ now' = 0
    /\ UNCHANGED <<i2c_dev, crc_vars>>

sgp41_execute_conditioning ==
    \E h \in HumidityTicks, t \in TemperatureTicks :
      \E seen0 \in SeenPairs(h), seen3 \in SeenPairs(t) :
        command_write("conditioning", h, t, data_tx(h, t, seen0, seen3))

sgp41_measure_raw_signals ==
    \E h \in HumidityTicks, t \in TemperatureTicks :
      \E seen0 \in SeenPairs(h), seen3 \in SeenPairs(t) :
        command_write("measure_raw", h, t, data_tx(h, t, seen0, seen3))

sgp41_execute_self_test == command_write("self_test", 0, 0, <<>>)

sgp41_turn_heater_off == command_write("heater_off", 0, 0, <<>>)

sgp41_get_serial_number == command_write("serial_number", 0, 0, <<>>)

(***************************************************************************)
(* delay_us                                                                *)
(***************************************************************************)
\* mutant: the wrap-around of m + period_us is not handled
delay_us_enter_no_overflow ==
    /\ pc = "delay"
    /\ \E d \in ClockSteps :
         /\ now' = (now + d) % ClockMod
         /\ elapsed' = 0
         /\ m' = now'
         /\ IF period # 0
            THEN /\ e' = (m' + period) % ClockMod
                 /\ pc' = "wait"
            ELSE /\ e' = e
                 /\ pc' = "after_delay"
    /\ UNCHANGED <<i2c_dev, op, args, ret, out, bus, data_rx, period,
                   ipc, iret, icalls, ibus, ilog, crc_vars>>

\* m = esp_timer_get_time(); if (period_us) { e = m + period_us; if (m > e) ...
delay_us_enter ==
    /\ pc = "delay"
    /\ \E d \in ClockSteps :
         /\ now' = (now + d) % ClockMod
         /\ elapsed' = 0
         /\ m' = now'
         /\ IF period # 0
            THEN /\ e' = (m' + period) % ClockMod
                 /\ pc' = IF m' > e' THEN "ovf" ELSE "wait"
            ELSE /\ e' = e
                 /\ pc' = "after_delay"
    /\ UNCHANGED <<i2c_dev, op, args, ret, out, bus, data_rx, period,
                   ipc, iret, icalls, ibus, ilog, crc_vars>>

\* while ((uint64_t)esp_timer_get_time() > e) NOP();
delay_us_overflow_loop ==
    /\ pc = "ovf"
    /\ \E d \in ClockSteps :
         /\ ClockRead(d)
         /\ pc' = IF now' > e THEN "ovf" ELSE "wait"
    /\ UNCHANGED <<i2c_dev, op, args, ret, out, bus, data_rx, period, m, e,
                   ipc, iret, icalls, ibus, ilog, crc_vars>>

\* while ((uint64_t)esp_timer_get_time() < e) NOP();
delay_us_wait_loop ==
    /\ pc = "wait"
    /\ \E d \in ClockSteps :
         /\ ClockRead(d)
         /\ pc' = IF now' < e THEN "wait" ELSE "after_delay"
    /\ UNCHANGED <<i2c_dev, op, args, ret, out, bus, data_rx, period, m, e,
                   ipc, iret, icalls, ibus, ilog, crc_vars>>

(***************************************************************************)
(* From i2c_read to the return of a driver operation                       *)
(***************************************************************************)
\* mutant: only the first triplet is checked
crc_loop_first_only(rx, n) == check_crc(<<rx[1], rx[2]>>, 2, rx[3])

\* for (i = 0; i < n; i += 3) if (!check_crc(&data_rx[i], 2, data_rx[i + 2])) return ESP_FAIL;
crc_loop(rx, n) ==
    \A i \in {j \in 0..(n - 1) : j % 3 = 0} :
        check_crc(<<rx[i + 1], rx[i + 2]>>, 2, rx[i + 3])

sgp41_execute_conditioning_result(ok, rx, o) ==
    IF ~ok THEN [ret |-> ESP_FAIL, out |-> o]
    ELSE IF ~crc_loop(rx, 3) THEN [ret |-> ESP_FAIL, out |-> o]
    ELSE [ret |-> ESP_OK, out |-> [o EXCEPT !.sraw_voc = Word(rx[1], rx[2])]]

\* mutant: each word is stored as soon as its own triplet has been checked
sgp41_measure_raw_signals_result_early(ok, rx, o) ==
    IF ~ok THEN [ret |-> ESP_FAIL, out |-> o]
    ELSE IF ~check_crc(<<rx[1], rx[2]>>, 2, rx[3]) THEN [ret |-> ESP_FAIL, out |-> o]
    ELSE IF ~check_crc(<<rx[4], rx[5]>>, 2, rx[6])
         THEN [ret |-> ESP_FAIL, out |-> [o EXCEPT !.sraw_voc = Word(rx[1], rx[2])]]
    ELSE [ret |-> ESP_OK,
          out |-> [o EXCEPT !.sraw_voc = Word(rx[1], rx[2]),
                            !.sraw_nox = Word(rx[4], rx[5])]]

sgp41_measure_raw_signals_result(ok, rx, o) ==
    IF ~ok THEN [ret |-> ESP_FAIL, out |-> o]
    ELSE IF ~crc_loop(rx, 6) THEN [ret |-> ESP_FAIL, out |-> o]
    ELSE [ret |-> ESP_OK,
          out |-> [o EXCEPT !.sraw_voc = Word(rx[1], rx[2]),
                            !.sraw_nox = Word(rx[4], rx[5])]]

sgp41_execute_self_test_result(ok, rx, o) ==
    IF ~ok THEN [ret |-> ESP_FAIL, out |-> o]
    ELSE IF ~crc_loop(rx, 3) THEN [ret |-> ESP_FAIL, out |-> o]
    ELSE [ret |-> ESP_OK, out |-> [o EXCEPT !.test_result = Word(rx[1], rx[2])]]

\* mutant: the words are taken from consecutive byte pairs, checksums included
sgp41_get_serial_number_result_packed(ok, rx, o) ==
    IF ~ok THEN [ret |-> ESP_FAIL, out |-> o]
    ELSE IF ~crc_loop(rx, 9) THEN [ret |-> ESP_FAIL, out |-> o]
    ELSE [ret |-> ESP_OK,
          out |-> [o EXCEPT !.serial_number =
                     <<Word(rx[1], rx[2]), Word(rx[3], rx[4]), Word(rx[5], rx[6])>>]]

sgp41_get_serial_number_result(ok, rx, o) ==
    IF ~ok THEN [ret |-> ESP_FAIL, out |-> o]
    ELSE IF ~crc_loop(rx, 9) THEN [ret |-> ESP_FAIL, out |-> o]
    ELSE [ret |-> ESP_OK,
          out |-> [o EXCEPT !.serial_number =
                     <<Word(rx[1], rx[2]), Word(rx[4], rx[5]), Word(rx[7], rx[8])>>]]

OpResult(o, ok, rx, old) ==
    CASE o = "conditioning"  -> sgp41_execute_conditioning_result(ok, rx, old)
      [] o = "measure_raw"   -> sgp41_measure_raw_signals_result(ok, rx, old)
      [] o = "self_test"     -> sgp41_execute_self_test_result(ok, rx, old)
      [] o = "serial_number" -> sgp41_get_serial_number_result(ok, rx, old)

\* uint8_t data_rx[n] = {0}; i2c_read(0, data_rx, n, me->i2c_dev); checks; stores
response_read(o) ==
    /\ pc = "after_delay"
    /\ op = o
    /\ \E ok \in BOOLEAN, resp \in Responses(RxLen(o)) :
         LET rx == IF ok THEN resp ELSE [i \in 1..RxLen(o) |-> 0]
             r  == OpResult(o, ok, rx, out)
         IN /\ data_rx' = rx
            /\ bus' = Append(bus, [kind |-> "read", ok |-> ok, len |-> RxLen(o),
                                   bytes |-> <<>>])
            /\ ret' = r.ret
            /\ out' = r.out
    /\ pc' = "idle"
    /\ ibus' = IF ipc \in {"in_self_test", "in_serial_number"} THEN ibus + 1 ELSE ibus
    /\ ClockDead
    /\ UNCHANGED <<i2c_dev, op, args, ipc, iret, icalls, ilog, crc_vars>>

sgp41_execute_conditioning_read == response_read("conditioning")

sgp41_measure_raw_signals_read == response_read("measure_raw")

sgp41_execute_self_test_read == response_read("self_test")

sgp41_get_serial_number_read == response_read("serial_number")

\* sgp41_turn_heater_off after delay_us(1 * 1000): return ret
sgp41_turn_heater_off_return ==
    /\ pc = "after_delay"
    /\ op = "heater_off"
    /\ ret' = ESP_OK
    /\ pc' = "idle"
    /\ ClockDead
    /\ UNCHANGED <<i2c_dev, op, args, out, bus, data_rx,
                   ipc, iret, icalls, ibus, ilog, crc_vars>>

(***************************************************************************)
(* sgp41_init                                                              *)
(***************************************************************************)
MsgAddFailed == "Failed to add device to I2C bus"

MsgSelfTestFailed == "Self test failed with error"

MsgSelfTestOk == "Self test executed successfully"

MsgSerial == "Serial number"

\* i2c_master_bus_add_device(...) != ESP_OK: log and return ret
sgp41_init ==
    /\ pc = "idle"
    /\ ipc \in {"none", "done"}
    /\ \E added \in BOOLEAN :
         IF added
         THEN /\ i2c_dev' = "dev"
              /\ ipc' = "call_self_test"
              /\ iret' = "none"
              /\ ilog' = <<>>
         ELSE /\ i2c_dev' = i2c_dev
              /\ ipc' = "done"
              /\ iret' = ESP_OK
              /\ ilog' = <<[msg |-> MsgAddFailed, words |-> <<>>, written |-> TRUE]>>
    /\ icalls' = <<>>
    /\ ibus' = 0
    /\ op' = "none"
    /\ args' = <<0, 0>>
    /\ ret' = "none"
    /\ out' = NoOutputs
    /\ bus' = <<>>
    /\ data_rx' = <<>>
    /\ UNCHANGED <<pc, now, period, m, e, elapsed, crc_vars>>

\* mutant: a failed or unexpected self test aborts the initialisation
sgp41_init_check_self_test_strict ==
    /\ pc = "idle"
    /\ ipc = "in_self_test"
    /\ \E v \in (IF out.test_result = Unwritten
                 THEN IndeterminateWords ELSE {out.test_result}) :
         IF ret # ESP_OK \/ v # SELF_TEST_OK
         THEN /\ ilog' = Append(ilog, [msg |-> MsgSelfTestFailed, words |-> <<v>>,
                                       written |-> out.test_result # Unwritten])
              /\ ipc' = "done"
              /\ iret' = ESP_FAIL
         ELSE /\ ilog' = Append(ilog, [msg |-> MsgSelfTestOk, words |-> <<v>>,
                                       written |-> out.test_result # Unwritten])
              /\ ipc' = "call_serial_number"
              /\ iret' = iret
    /\ UNCHANGED <<i2c_dev, pc, op, args, ret, out, bus, data_rx, now, period, m, e,
                   elapsed, icalls, ibus, crc_vars>>

\* sgp41_execute_self_test(me, &test_result) has returned, its value is dropped;
\* if (test_result != 0xD400) ESP_LOGE(...) else ESP_LOGI(...)
sgp41_init_check_self_test ==
    /\ pc = "idle"
    /\ ipc = "in_self_test"
    /\ \E v \in (IF out.test_result = Unwritten
                 THEN IndeterminateWords ELSE {out.test_result}) :
         ilog' = Append(ilog,
                        [msg |-> IF v # SELF_TEST_OK THEN MsgSelfTestFailed
                                                     ELSE MsgSelfTestOk,
                         words |-> <<v>>,
                         written |-> out.test_result # Unwritten])
    /\ ipc' = "call_serial_number"
    /\ UNCHANGED <<i2c_dev, pc, op, args, ret, out, bus, data_rx, now, period, m, e,
                   elapsed, iret, icalls, ibus, crc_vars>>

\* sgp41_get_serial_number(me, serial_number) has returned, its value is dropped;
\* ESP_LOGI(serial_number[0], [1], [2]); return ret
sgp41_init_log_serial_number ==
    /\ pc = "idle"
    /\ ipc = "in_serial_number"
    /\ \E ind \in [1..3 -> IndeterminateWords] :
         ilog' = Append(ilog,
                        [msg |-> MsgSerial,
                         words |-> [i \in 1..3 |->
                                      IF out.serial_number[i] = Unwritten
                                      THEN ind[i] ELSE out.serial_number[i]],
                         written |-> \A i \in 1..3 : out.serial_number[i] # Unwritten])
    /\ ipc' = "done"
    /\ iret' = ESP_OK
    /\ UNCHANGED <<i2c_dev, pc, op, args, ret, out, bus, data_rx, now, period, m, e,
                   elapsed, icalls, ibus, crc_vars>>

(***************************************************************************)
(* The driver as a state machine                                           *)
(***************************************************************************)
NoCrc ==
    /\ crc_data = <<>>
    /\ crc_out = Unwritten
    /\ crc_flip = 0
    /\ crc_trip = <<>>
    /\ crc_acc = "none"

NoDriver ==
    /\ i2c_dev = "null"
    /\ pc = "idle"
    /\ op = "none"
    /\ args = <<0, 0>>
    /\ ret = "none"
    /\ out = NoOutputs
    /\ bus = <<>>
    /\ data_rx = <<>>
    /\ now = 0
    /\ period = 0
    /\ m = 0
    /\ e = 0
    /\ elapsed = 0
    /\ ipc = "none"
    /\ iret = "none"
    /\ icalls = <<>>
    /\ ibus = 0
    /\ ilog = <<>>

Init == NoDriver /\ NoCrc

Next ==
    \/ sgp41_init
    \/ sgp41_init_check_self_test
    \/ sgp41_init_log_serial_number
    \/ sgp41_execute_conditioning
    \/ sgp41_measure_raw_signals
    \/ sgp41_execute_self_test
    \/ sgp41_turn_heater_off
    \/ sgp41_get_serial_number
    \/ delay_us_enter
    \/ delay_us_overflow_loop
    \/ delay_us_wait_loop
    \/ sgp41_execute_conditioning_read
    \/ sgp41_measure_raw_signals_read
    \/ sgp41_execute_self_test_read
    \/ sgp41_get_serial_number_read
    \/ sgp41_turn_heater_off_return

Spec == Init /\ [][Next]_vars

(***************************************************************************)
(* generate_crc and check_crc on their own: every input is an initial      *)
(* state, the actions apply the two functions                              *)
(***************************************************************************)
\* longest input of generate_crc besides the 2-byte inputs
MaxCrcLen == 3

CrcShortBytes == {0, 1, 128, 190, 239, 255}

RECURSIVE SeqsUpTo(_, _)
SeqsUpTo(S, n) ==
    IF n = 0 THEN {<<>>}
    ELSE LET shorter == SeqsUpTo(S, n - 1)
         IN shorter \cup {Append(q, b) : q \in {x \in shorter : Len(x) = n - 1}, b \in S}

CrcInputs ==
    {<<d0, d1>> : d0 \in Byte, d1 \in Byte} \cup {<<d0>> : d0 \in Byte}
        \cup SeqsUpTo(CrcShortBytes, MaxCrcLen)

\* second data bytes of the triplets whose bits are flipped (the first data
\* byte ranges over Byte)
FlipSecondBytes == {(37 * i + 5) % 256 : i \in 0..31} \cup {0, 239, 255}

\* bit k (1..24) of a triplet flipped: 1..8 in byte 0, 9..16 in byte 1, 17..24 in the checksum
FlipBit(trip, k) ==
    LET idx  == ((k - 1) \div 8) + 1
        mask == 2 ^ ((k - 1) % 8)
    IN [trip EXCEPT ![idx] = BitXor(trip[idx], mask)]

crc_generate ==
    /\ crc_out = Unwritten
    /\ crc_out' = generate_crc(crc_data, Len(crc_data))
    /\ UNCHANGED <<crc_data, crc_flip, crc_trip, crc_acc, drv_vars>>

\* a triplet with its generated checksum, one bit flipped, handed to check_crc
crc_check_flipped ==
    /\ crc_out # Unwritten
    /\ Len(crc_data) = 2
    /\ crc_data[2] \in FlipSecondBytes
    /\ crc_flip = 0
    /\ crc_acc = "none"
    /\ \E k \in 1..24 :
         /\ crc_flip' = k
         /\ crc_trip' = FlipBit(<<crc_data[1], crc_data[2], crc_out>>, k)
         /\ crc_acc' = IF check_crc(<<crc_trip'[1], crc_trip'[2]>>, 2, crc_trip'[3])
                        THEN "true" ELSE "false"
    /\ UNCHANGED <<crc_data, crc_out, drv_vars>>

\* the triplet as generated handed to check_crc
crc_check_intact ==
    /\ crc_out # Unwritten
    /\ Len(crc_data) = 2
    /\ crc_flip = 0
    /\ crc_acc = "none"
    /\ crc_trip' = <<crc_data[1], crc_data[2], crc_out>>
    /\ crc_acc' = IF check_crc(<<crc_trip'[1], crc_trip'[2]>>, 2, crc_trip'[3])
                   THEN "true" ELSE "false"
    /\ UNCHANGED <<crc_data, crc_out, crc_flip, drv_vars>>

InitCrc ==
    /\ NoDriver
    /\ crc_data \in CrcInputs
    /\ crc_out = Unwritten
    /\ crc_flip = 0
    /\ crc_trip = <<>>
    /\ crc_acc = "none"

NextCrc ==
    \/ crc_generate
    \/ crc_check_flipped
    \/ crc_check_intact

SpecCrc == InitCrc /\ [][NextCrc]_vars

(***************************************************************************)
(* Reference CRC-8 on bit vectors: register and polynomial are 8 bits,     *)
(* most significant first                                                  *)
(***************************************************************************)
ToBits(b) == [i \in 1..8 |-> (b \div (2 ^ (8 - i))) % 2 = 1]

RECURSIVE BitsValue(_, _)
BitsValue(r, i) ==
    IF i = 0 THEN 0 ELSE (IF r[i] THEN 2 ^ (8 - i) ELSE 0) + BitsValue(r, i - 1)

XorBits(a, b) == [i \in 1..8 |-> a[i] # b[i]]

ShiftLeftBits(r) == [i \in 1..8 |-> IF i < 8 THEN r[i + 1] ELSE FALSE]

RECURSIVE RefShift(_, _)
RefShift(r, n) ==
    IF n = 0 THEN r
    ELSE RefShift(IF r[1] THEN XorBits(ShiftLeftBits(r), ToBits(49))
                          ELSE ShiftLeftBits(r), n - 1)

RECURSIVE RefRegister(_, _)
RefRegister(data, k) ==
    IF k = 0 THEN ToBits(255)
    ELSE RefShift(XorBits(RefRegister(data, k - 1), ToBits(data[k])), 8)

RefCrc(data) == BitsValue(RefRegister(data, Len(data)), 8)

\* C8: generate_crc is CRC-8 with polynomial 0x31, initial register 0xFF,
\* MSB first, no reflection, no final XOR: its result equals the bit-vector
\* reference for every input, lies in 0..255, and is 0x92 for [0xBE, 0xEF].
C8_CrcBitExact ==
    (crc_out # Unwritten /\ crc_flip = 0 /\ crc_acc = "none") =>
        /\ crc_out = RefCrc(crc_data)
        /\ crc_out \in 0..255
        /\ (crc_data = <<190, 239>> => crc_out = 146)

C8_Witness ==
    /\ crc_data = <<190, 239>>
    /\ crc_out = 146
    /\ crc_flip = 0

\* C7: a triplet with a correct checksum and any single one of its 24 bits
\* flipped is rejected by check_crc.
C7_SingleBitFlipRejected ==
    crc_flip # 0 => crc_acc = "false"

C7_Witness ==
    /\ crc_flip = 24
    /\ crc_data = <<190, 239>>
    /\ crc_trip = <<190, 239, 18>>
    /\ crc_acc = "false"

(***************************************************************************)
(* Properties of the driver operations                                     *)
(***************************************************************************)
\* a driver operation has returned and its results are in place
Returned == pc = "idle" /\ op \in Ops /\ ret # "none"

WriteFailed == ~bus[1].ok

ReadFailed == Len(bus) >= 2 /\ ~bus[2].ok

ReadOk == Len(bus) >= 2 /\ bus[2].ok

\* triplet k (0-based) of the response fails its checksum
BadTriplet(k) ==
    data_rx[3 * k + 3] # generate_crc(<<data_rx[3 * k + 1], data_rx[3 * k + 2]>>, 2)

SomeBadTriplet == ReadOk /\ \E k \in 0..((Len(data_rx) \div 3) - 1) : BadTriplet(k)

\* C1: an operation with a response returns ESP_FAIL if its write failed, its
\* read failed or some triplet of the response has a wrong checksum, and
\* ESP_OK otherwise; sgp41_turn_heater_off returns ESP_FAIL exactly when its
\* write failed.
C1_ReturnValue ==
    Returned =>
        IF op = "heater_off"
        THEN ret = (IF WriteFailed THEN ESP_FAIL ELSE ESP_OK)
        ELSE ret = (IF WriteFailed \/ ReadFailed \/ SomeBadTriplet
                    THEN ESP_FAIL ELSE ESP_OK)

\* measure raw signals rejected although only the second triplet is bad
C1_Witness ==
    /\ Returned
    /\ op = "measure_raw"
    /\ ReadOk
    /\ ~BadTriplet(0)
    /\ BadTriplet(1)
    /\ ret = ESP_FAIL

\* C2: an operation issues exactly one write; then, only if the write
\* succeeded and the operation has a response, exactly one read of the
\* response length (3, 6, 3, 9 bytes); never a second write or read, no read
\* after a failed write, and no read at all for sgp41_turn_heater_off.
C2_BusSequence ==
    op \in Ops =>
        /\ Len(bus) \in {1, 2}
        /\ bus[1].kind = "write"
        /\ Len(bus) = 2 =>
             /\ bus[2].kind = "read"
             /\ bus[1].ok
             /\ op # "heater_off"
             /\ bus[2].len = (CASE op = "conditioning"  -> 3
                                [] op = "measure_raw"   -> 6
                                [] op = "self_test"     -> 3
                                [] op = "serial_number" -> 9)
        /\ (Returned /\ bus[1].ok /\ op # "heater_off") => Len(bus) = 2

\* a serial-number request that went through write and 9-byte read
C2_Witness ==
    /\ Returned
    /\ op = "serial_number"
    /\ Len(bus) = 2
    /\ bus[2].len = 9
    /\ ~bus[2].ok

\* C3: when delay_us returns, at least period_us microseconds of real time
\* have passed since it read the clock (so also since the command write
\* returned), the period being 50 ms, 50 ms, 320 ms, 1 ms, 1 ms for the five
\* operations, also when m + period_us wraps around.
C3_DelayElapsed ==
    pc = "after_delay" =>
        /\ period = (CASE op = "conditioning"  -> 50000
                       [] op = "measure_raw"   -> 50000
                       [] op = "self_test"     -> 320000
                       [] op = "heater_off"    -> 1000
                       [] op = "serial_number" -> 1000)
        /\ elapsed >= period

\* delay_us returned after a wrap of m + period_us
C3_Witness ==
    /\ pc = "after_delay"
    /\ op = "self_test"
    /\ m > e
    /\ elapsed >= 320000

\* C4: conditioning and measure raw transmit, as one write of exactly 8
\* bytes, [opcode_hi, opcode_lo, hi(h), lo(h), CRC8(hi(h), lo(h)), hi(t),
\* lo(t), CRC8(hi(t), lo(t))], which fills the transmit buffer exactly.
C4_TxFrame ==
    (op \in {"conditioning", "measure_raw"}) =>
        LET h == args[1]
            t == args[2]
            c == IF op = "conditioning" THEN 9746 ELSE 9753
        IN /\ bus[1].kind = "write"
           /\ bus[1].len = 8
           /\ bus[1].len <= SGP41_I2C_BUFFER_LEN_MAX
           /\ bus[1].bytes =
                <<c \div 256, c % 256,
                  h \div 256, h % 256, RefCrc(<<h \div 256, h % 256>>),
                  t \div 256, t % 256, RefCrc(<<t \div 256, t % 256>>)>>

\* C5: an operation that returns ESP_FAIL has stored to none of its output
\* locations.
C5_NoPartialSuccess ==
    (Returned /\ ret = ESP_FAIL) => out = NoOutputs

\* a 6-byte response with a valid first and a bad second triplet
C5_Witness ==
    /\ Returned
    /\ op = "measure_raw"
    /\ ReadOk
    /\ ~BadTriplet(0)
    /\ BadTriplet(1)
    /\ out = NoOutputs

\* C6: a 9-byte response whose three triplets pass makes
\* sgp41_get_serial_number return ESP_OK with the words b0*256+b1,
\* b3*256+b4, b6*256+b7; a valid 6-byte response makes
\* sgp41_measure_raw_signals return sraw_voc = b0*256+b1, sraw_nox = b3*256+b4.
C6_Decoding ==
    (Returned /\ ReadOk /\ ~SomeBadTriplet) =>
        /\ op = "serial_number" =>
             /\ ret = ESP_OK
             /\ out.serial_number = <<data_rx[1] * 256 + data_rx[2],
                                      data_rx[4] * 256 + data_rx[5],
                                      data_rx[7] * 256 + data_rx[8]>>
        /\ op = "measure_raw" =>
             /\ ret = ESP_OK
             /\ out.sraw_voc = data_rx[1] * 256 + data_rx[2]
             /\ out.sraw_nox = data_rx[4] * 256 + data_rx[5]

\* a serial number of three different-looking triplets decoded
C6_Witness ==
    /\ Returned
    /\ op = "serial_number"
    /\ data_rx = <<190, 239, 146, 212, 0, 198, 190, 239, 146>>
    /\ out.serial_number = <<48879, 54272, 48879>>

(***************************************************************************)
(* Properties of sgp41_init                                                *)
(***************************************************************************)
AddDeviceFailed == ilog # <<>> /\ ilog[1].msg = MsgAddFailed

\* C9: once the device is registered, sgp41_init enters Execute Self Test and
\* then Get Serial Number, in that order, and returns ESP_OK, whatever the
\* self-test word and whether or not either transaction failed.
C9_InitSoftFail ==
    /\ (ipc = "done" /\ ~AddDeviceFailed) =>
          /\ icalls = <<"self_test", "serial_number">>
          /\ iret = ESP_OK
    /\ ipc \in {"call_serial_number", "in_serial_number"} => iret = "none"

\* both transactions failed and sgp41_init still returned ESP_OK
C9_Witness ==
    /\ ipc = "done"
    /\ iret = ESP_OK
    /\ icalls = <<"self_test", "serial_number">>
    /\ ilog[1].msg = MsgSelfTestFailed
    /\ ~ilog[1].written
    /\ ret = ESP_FAIL

\* C10: when adding the device to the bus fails, sgp41_init issues no bus
\* transaction and returns a value other than ESP_OK.
C10_InitReportsAddFailure ==
    (ipc = "done" /\ AddDeviceFailed) =>
        /\ ibus = 0
        /\ icalls = <<>>
        /\ iret # ESP_OK

\* C11: every word sgp41_init inspects or logs was stored by the driver call
\* before it: the word compared against 0xD400 was stored by
\* sgp41_execute_self_test, the three serial-number words by
\* sgp41_get_serial_number; test_result and serial_number[] are never read
\* while still unwritten.
C11_InitReadsOnlyWrittenValues ==
    \A i \in 1..Len(ilog) :
        ilog[i].msg \in {MsgSelfTestFailed, MsgSelfTestOk, MsgSerial} => ilog[i].written

====
